---- MODULE Spec2Model ----
(***************************************************************************)
(* Model of the date-calculations crate (src/src/lib.rs): sixteen pure     *)
(* functions NaiveDate -> Option<NaiveDate> giving the beginning, end,     *)
(* next and previous week / month / quarter / year of a date.              *)
(*                                                                         *)
(* The crate composes chrono's NaiveDate primitives (with_day, with_month, *)
(* with_year, weekday, iso_week, from_isoywd_opt, +/- Duration).  They are *)
(* modelled here by what they compute on the proleptic Gregorian calendar: *)
(* field replacement re-validates the (year, month, day) triple, duration  *)
(* arithmetic goes through the day number since 0001-01-01, and the ISO    *)
(* week lookup and its inverse are computed independently of each other.   *)
(***************************************************************************)
EXTENDS Integers, Sequences, FiniteSets, TLC

VARIABLES date, op, result

vars == <<date, op, result>>

(***************************************************************************)
(* Bounds of the model.  The input dates are all the valid dates of a few  *)
(* windows of YearSpan + 1 consecutive years each.                         *)
(***************************************************************************)
YearSpan == 7

\* The range the crate's property tests and documentation call supported.
SupportedYears == 1584..9999

\* First years of the windows: the start of the supported range, the two
\* kinds of century year (1900 is common, 2000 is leap) and the present.
WindowStarts == {1584, 1896, 1996, 2016}

Years ==
    UNION {y..(y + YearSpan) : y \in WindowStarts} \cup ((9999 - YearSpan)..9999)

(***************************************************************************)
(* Option<NaiveDate>, and the third outcome of a Rust call: a panic.       *)
(***************************************************************************)
NoDate == [year |-> 0, month |-> 0, day |-> 0]

None == [tag |-> "None", val |-> NoDate]

Panic == [tag |-> "Panic", val |-> NoDate]

Some(d) == [tag |-> "Some", val |-> d]

\* Option::map and the `?` operator / Option::and_then: both pass None on.
and_then(o, F(_)) == IF o.tag = "Some" THEN F(o.val) ELSE o

(***************************************************************************)
(* chrono::NaiveDate                                                       *)
(***************************************************************************)
is_leap_year(y) == (y % 4 = 0 /\ y % 100 # 0) \/ y % 400 = 0

ndays_in_year(y) == IF is_leap_year(y) THEN 366 ELSE 365

ndays_in_month(y, m) ==
    IF m = 2 THEN (IF is_leap_year(y) THEN 29 ELSE 28)
    ELSE IF m \in {4, 6, 9, 11} THEN 30 ELSE 31

\* Years chrono can represent (NaiveDate::MIN .. NaiveDate::MAX).
year_in_range(y) == y >= -262143 /\ y <= 262142

from_ymd_opt(y, m, d) ==
    IF year_in_range(y) /\ m \in 1..12 /\ d >= 1 /\ d <= ndays_in_month(y, m)
    THEN Some([year |-> y, month |-> m, day |-> d])
    ELSE None

with_day(dt, d) == from_ymd_opt(dt.year, dt.month, d)

with_month(dt, m) == from_ymd_opt(dt.year, m, dt.day)

with_year(dt, y) == from_ymd_opt(y, dt.month, dt.day)

\* Days of the year before the first of month m.
days_before_month(y, m) ==
    LET cum == <<0, 31, 59, 90, 120, 151, 181, 212, 243, 273, 304, 334>>
    IN cum[m] + (IF m > 2 /\ is_leap_year(y) THEN 1 ELSE 0)

ordinal(dt) == days_before_month(dt.year, dt.month) + dt.day

\* Days from 0001-01-01 (day 1) to the first of January of year y, exclusive.
days_before_year(y) ==
    365 * (y - 1) + ((y - 1) \div 4) - ((y - 1) \div 100) + ((y - 1) \div 400)

num_days_from_ce(dt) == days_before_year(dt.year) + ordinal(dt)

month_of_ordinal(y, o) ==
    CHOOSE m \in 1..12 :
        /\ days_before_month(y, m) < o
        /\ o <= days_before_month(y, m) + ndays_in_month(y, m)

from_yo_opt(y, o) ==
    IF year_in_range(y) /\ o >= 1 /\ o <= ndays_in_year(y)
    THEN LET m == month_of_ordinal(y, o)
         IN Some([year |-> y, month |-> m, day |-> o - days_before_month(y, m)])
    ELSE None

from_num_days_from_ce_opt(n) ==
    LET n0    == n - 1
        cycle == n0 \div 146097
        r     == n0 % 146097
        c0    == r \div 36524
        c     == IF c0 > 3 THEN 3 ELSE c0
        r2    == r - c * 36524
        q     == r2 \div 1461
        r3    == r2 - q * 1461
        a0    == r3 \div 365
        a     == IF a0 > 3 THEN 3 ELSE a0
        doy   == r3 - a * 365
    IN from_yo_opt(400 * cycle + 100 * c + 4 * q + a + 1, doy + 1)

\* `date + Duration::days(n)` and `date - Duration::days(n)`: the operators
\* panic where checked_add_signed would return None.
add_days(dt, n) ==
    LET r == from_num_days_from_ce_opt(num_days_from_ce(dt) + n)
    IN IF r.tag = "Some" THEN r ELSE Panic

signed_duration_since(a, b) == num_days_from_ce(a) - num_days_from_ce(b)

Weekdays == <<"Mon", "Tue", "Wed", "Thu", "Fri", "Sat", "Sun">>

num_days_from_monday(wd) == CHOOSE i \in 0..6 : Weekdays[i + 1] = wd

weekday(dt) == Weekdays[((num_days_from_ce(dt) - 1) % 7) + 1]

\* ISO 8601 week date: the week (Monday..Sunday) belongs to the year that
\* holds its Thursday.
iso_week(dt) ==
    LET n   == num_days_from_ce(dt)
        thu == n - ((n - 1) % 7) + 3
        y0  == dt.year
        y   == IF thu <= days_before_year(y0) THEN y0 - 1
               ELSE IF thu > days_before_year(y0 + 1) THEN y0 + 1
               ELSE y0
    IN [year |-> y, week |-> ((thu - days_before_year(y) - 1) \div 7) + 1]

nisoweeks(y) ==
    LET jan1 == weekday([year |-> y, month |-> 1, day |-> 1])
    IN IF jan1 = "Thu" \/ (jan1 = "Wed" /\ is_leap_year(y)) THEN 53 ELSE 52

from_isoywd_opt(y, w, wd) ==
    IF year_in_range(y) /\ w >= 1 /\ w <= nisoweeks(y)
    THEN LET jan4 == num_days_from_ce([year |-> y, month |-> 1, day |-> 4])
             mon1 == jan4 - ((jan4 - 1) % 7)
         IN from_num_days_from_ce_opt(mon1 + 7 * (w - 1) + num_days_from_monday(wd))
    ELSE None

(***************************************************************************)
(* src/src/lib.rs                                                          *)
(***************************************************************************)
beginning_of_month(dt) == with_day(dt, 1)

beginning_of_year(dt) ==
    and_then(beginning_of_month(dt), LAMBDA d : with_month(d, 1))

\* Faulty variant of end_of_year: the day is replaced before the month, so
\* day 31 is formed in the input's own month.
end_of_year_day_first(dt) ==
    and_then(with_day(dt, 31), LAMBDA d : with_month(d, 12))

end_of_year(dt) ==
    and_then(with_month(dt, 12), LAMBDA d : with_day(d, 31))

next_year(dt) ==
    and_then(beginning_of_year(dt), LAMBDA d : with_year(d, dt.year + 1))

\* Faulty variant of previous_year: the year is replaced on the input itself,
\* keeping its month and day.
previous_year_keep_day(dt) == with_year(dt, dt.year - 1)

previous_year(dt) ==
    and_then(beginning_of_year(dt), LAMBDA d : with_year(d, dt.year - 1))

\* Faulty variant of beginning_of_week: the Sunday of the ISO week is returned
\* without stepping back one week.
beginning_of_week_no_step_back(dt) ==
    IF weekday(dt) = "Sun"
    THEN Some(dt)
    ELSE from_isoywd_opt(iso_week(dt).year, iso_week(dt).week, "Sun")

beginning_of_week(dt) ==
    IF weekday(dt) = "Sun"
    THEN Some(dt)
    ELSE and_then(from_isoywd_opt(iso_week(dt).year, iso_week(dt).week, "Sun"),
                  LAMBDA d : add_days(d, -7))

\* Faulty variant of end_of_week: a whole week is added instead of six days.
end_of_week_plus_week(dt) ==
    and_then(beginning_of_week(dt), LAMBDA d : add_days(d, 7))

end_of_week(dt) ==
    and_then(beginning_of_week(dt), LAMBDA d : add_days(d, 6))

\* Faulty variant of next_week: a date that is not a Sunday moves to the next
\* Sunday, a Sunday stays where it is.
next_week_idempotent(dt) ==
    IF weekday(dt) = "Sun"
    THEN Some(dt)
    ELSE and_then(beginning_of_week(dt), LAMBDA d : add_days(d, 7))

next_week(dt) ==
    and_then(beginning_of_week(dt), LAMBDA d : add_days(d, 7))

previous_week(dt) ==
    and_then(beginning_of_week(dt), LAMBDA d : add_days(d, -7))

\* Faulty variant of next_month: the month is replaced on the input itself,
\* keeping its day.
next_month_keep_day(dt) ==
    IF dt.month = 12
    THEN next_year(dt)
    ELSE with_month(dt, dt.month + 1)

next_month(dt) ==
    IF dt.month = 12
    THEN next_year(dt)
    ELSE and_then(beginning_of_month(dt), LAMBDA d : with_month(d, dt.month + 1))

\* Faulty variant of end_of_month: day 31 is taken as the last day of every
\* month.
end_of_month_day31(dt) == with_day(dt, 31)

end_of_month(dt) ==
    and_then(next_month(dt), LAMBDA d : add_days(d, -1))

\* Faulty variant of previous_month: the January branch keeps the year.
previous_month_same_year(dt) ==
    IF dt.month = 1
    THEN and_then(beginning_of_month(dt), LAMBDA d : with_month(d, 12))
    ELSE and_then(beginning_of_month(dt), LAMBDA d : with_month(d, dt.month - 1))

previous_month(dt) ==
    IF dt.month = 1
    THEN and_then(and_then(beginning_of_month(dt), LAMBDA d : with_month(d, 12)),
                  LAMBDA d : with_year(d, dt.year - 1))
    ELSE and_then(beginning_of_month(dt), LAMBDA d : with_month(d, dt.month - 1))

\* Faulty variant of quarter_month: the month is not made zero-based before
\* the division.
quarter_month_off_by_one(dt) == 1 + 3 * (dt.month \div 3)

quarter_month(dt) == 1 + 3 * ((dt.month - 1) \div 3)

beginning_of_quarter(dt) ==
    and_then(beginning_of_month(dt), LAMBDA d : with_month(d, quarter_month(dt)))

\* Faulty variant of next_quarter: three months are added to the input's month
\* instead of to the quarter's first month.
next_quarter_from_month(dt) ==
    IF dt.month >= 10
    THEN and_then(beginning_of_year(dt), LAMBDA d : with_year(d, dt.year + 1))
    ELSE and_then(beginning_of_month(dt), LAMBDA d : with_month(d, dt.month + 3))

next_quarter(dt) ==
    IF dt.month >= 10
    THEN and_then(beginning_of_year(dt), LAMBDA d : with_year(d, dt.year + 1))
    ELSE and_then(beginning_of_month(dt),
                  LAMBDA d : with_month(d, quarter_month(dt) + 3))

end_of_quarter(dt) ==
    and_then(next_quarter(dt), LAMBDA d : add_days(d, -1))

previous_quarter(dt) ==
    IF dt.month < 4
    THEN and_then(and_then(beginning_of_month(dt),
                           LAMBDA d : with_year(d, dt.year - 1)),
                  LAMBDA d : with_month(d, 10))
    ELSE and_then(beginning_of_month(dt),
                  LAMBDA d : with_month(d, quarter_month(dt) - 3))

(***************************************************************************)
(* The state machine: a caller holds a valid date and calls one of the     *)
(* sixteen functions on it; `result` is what the call returned.            *)
(***************************************************************************)
ValidDates ==
    {dt \in [year : Years, month : 1..12, day : 1..31] :
        from_ymd_opt(dt.year, dt.month, dt.day).tag = "Some"}

Init ==
    /\ date \in ValidDates
    /\ op = "none"
    /\ result = None

Call(name, r) ==
    /\ op = "none"
    /\ op' = name
    /\ result' = r
    /\ UNCHANGED date

Call_beginning_of_week == Call("beginning_of_week", beginning_of_week(date))

Call_end_of_week == Call("end_of_week", end_of_week(date))

Call_next_week == Call("next_week", next_week(date))

Call_previous_week == Call("previous_week", previous_week(date))

Call_beginning_of_month == Call("beginning_of_month", beginning_of_month(date))

Call_end_of_month == Call("end_of_month", end_of_month(date))

Call_next_month == Call("next_month", next_month(date))

Call_previous_month == Call("previous_month", previous_month(date))

Call_beginning_of_quarter == Call("beginning_of_quarter", beginning_of_quarter(date))

Call_end_of_quarter == Call("end_of_quarter", end_of_quarter(date))

Call_next_quarter == Call("next_quarter", next_quarter(date))

Call_previous_quarter == Call("previous_quarter", previous_quarter(date))

Call_beginning_of_year == Call("beginning_of_year", beginning_of_year(date))

Call_end_of_year == Call("end_of_year", end_of_year(date))

Call_next_year == Call("next_year", next_year(date))

Call_previous_year == Call("previous_year", previous_year(date))

Next ==
    \/ Call_beginning_of_week
    \/ Call_end_of_week
    \/ Call_next_week
    \/ Call_previous_week
    \/ Call_beginning_of_month
    \/ Call_end_of_month
    \/ Call_next_month
    \/ Call_previous_month
    \/ Call_beginning_of_quarter
    \/ Call_end_of_quarter
    \/ Call_next_quarter
    \/ Call_previous_quarter
    \/ Call_beginning_of_year
    \/ Call_end_of_year
    \/ Call_next_year
    \/ Call_previous_year

Spec == Init /\ [][Next]_vars

(***************************************************************************)
(* Properties.  Each is a state predicate over a call's input (`date`),    *)
(* the function called (`op`) and what it returned (`result`).             *)
(***************************************************************************)

\* C1: beginning_of_week(d) is present and a Sunday, and d is 0..6 days after
\* it: it is d itself when d is a Sunday, otherwise the most recent Sunday
\* strictly before d (1..6 days back), which is the Sunday of d's ISO week
\* less seven days -- also when d's ISO week-year is not its calendar year.
C1_BeginningOfWeek ==
    op = "beginning_of_week" =>
        /\ result.tag = "Some"
        /\ weekday(result.val) = "Sun"
        /\ signed_duration_since(date, result.val) \in 0..6
        /\ weekday(date) = "Sun" => result.val = date
        /\ weekday(date) # "Sun" =>
            /\ signed_duration_since(date, result.val) \in 1..6
            /\ LET w == iso_week(date)
                   s == from_isoywd_opt(w.year, w.week, "Sun")
               IN /\ s.tag = "Some"
                  /\ signed_duration_since(s.val, result.val) = 7

C1_Witness ==
    /\ op = "beginning_of_week"
    /\ result.tag = "Some"
    /\ weekday(date) # "Sun"
    /\ iso_week(date).year # date.year
    /\ result.val.year # date.year

\* C2: end_of_week(d) is a Saturday, exactly 6 days after beginning_of_week(d),
\* on or after d and at most 6 days after d.
C2_EndOfWeek ==
    op = "end_of_week" =>
        /\ result.tag = "Some"
        /\ weekday(result.val) = "Sat"
        /\ beginning_of_week(date).tag = "Some"
        /\ signed_duration_since(result.val, beginning_of_week(date).val) = 6
        /\ signed_duration_since(result.val, date) \in 0..6

C2_Witness ==
    /\ op = "end_of_week"
    /\ result.tag = "Some"
    /\ weekday(date) = "Wed"
    /\ signed_duration_since(result.val, date) = 3

\* C3: next_week(d) and previous_week(d) are Sundays; next_week(d) - d is in
\* 1..7 days and previous_week(d) - d in -13..-7 days; for a Sunday d they
\* are exactly d + 7 and d - 7.
C3_NextPreviousWeek ==
    /\ op = "next_week" =>
        /\ result.tag = "Some"
        /\ weekday(result.val) = "Sun"
        /\ signed_duration_since(result.val, date) \in 1..7
        /\ weekday(date) = "Sun" => signed_duration_since(result.val, date) = 7
    /\ op = "previous_week" =>
        /\ result.tag = "Some"
        /\ weekday(result.val) = "Sun"
        /\ signed_duration_since(result.val, date) \in (-13)..(-7)
        /\ weekday(date) = "Sun" => signed_duration_since(result.val, date) = -7

C3_Witness ==
    /\ op \in {"next_week", "previous_week"}
    /\ result.tag = "Some"
    /\ weekday(date) = "Sun"
    /\ result.val # date

\* C4: end_of_month(d) has d's year and month, is followed one day later by
\* next_month(d), has the same beginning_of_month as d, and is the last day
\* of d's month.
C4_EndOfMonth ==
    op = "end_of_month" =>
        /\ result.tag = "Some"
        /\ result.val.year = date.year
        /\ result.val.month = date.month
        /\ add_days(result.val, 1) = next_month(date)
        /\ beginning_of_month(result.val) = beginning_of_month(date)
        /\ result.val.day = ndays_in_month(date.year, date.month)

C4_Witness ==
    /\ op = "end_of_month"
    /\ result.tag = "Some"
    /\ date.month = 12
    /\ result.val.day = 31

\* C5: whatever d's day of month, next_month(d) is the first of the following
\* calendar month (January of year + 1 after December) and previous_month(d)
\* the first of the preceding one (December of year - 1 before January).
C5_NextPreviousMonth ==
    /\ op = "next_month" =>
        result = Some(IF date.month = 12
                      THEN [year |-> date.year + 1, month |-> 1, day |-> 1]
                      ELSE [year |-> date.year, month |-> date.month + 1, day |-> 1])
    /\ op = "previous_month" =>
        result = Some(IF date.month = 1
                      THEN [year |-> date.year - 1, month |-> 12, day |-> 1]
                      ELSE [year |-> date.year, month |-> date.month - 1, day |-> 1])

C5_Witness ==
    /\ op \in {"next_month", "previous_month"}
    /\ result.tag = "Some"
    /\ date.day = 31
    /\ ndays_in_month(result.val.year, result.val.month) < 31

\* C6: end_of_quarter(d) is followed one day later by next_quarter(d), lies in
\* month 3, 6, 9 or 12, and has d's year.
C6_EndOfQuarter ==
    op = "end_of_quarter" =>
        /\ result.tag = "Some"
        /\ add_days(result.val, 1) = next_quarter(date)
        /\ result.val.month \in {3, 6, 9, 12}
        /\ result.val.year = date.year

C6_Witness ==
    /\ op = "end_of_quarter"
    /\ result.tag = "Some"
    /\ date.month >= 10
    /\ result.val.month = 12

\* C7: with q = 1 + 3 * floor((m - 1) / 3): beginning_of_quarter(d) = (y, q, 1);
\* next_quarter(d) = (y + 1, 1, 1) if m >= 10, else (y, q + 3, 1);
\* previous_quarter(d) = (y - 1, 10, 1) if m <= 3, else (y, q - 3, 1); each
\* has day 1 and a month among 1, 4, 7, 10.
C7_Quarters ==
    LET y == date.year
        m == date.month
        q == IF m <= 3 THEN 1 ELSE IF m <= 6 THEN 4 ELSE IF m <= 9 THEN 7 ELSE 10
    IN /\ op \in {"beginning_of_quarter", "next_quarter", "previous_quarter"} =>
            /\ result.tag = "Some"
            /\ result.val.day = 1
            /\ result.val.month \in {1, 4, 7, 10}
       /\ op = "beginning_of_quarter" =>
            result.val = [year |-> y, month |-> q, day |-> 1]
       /\ op = "next_quarter" =>
            result.val = IF m >= 10 THEN [year |-> y + 1, month |-> 1, day |-> 1]
                         ELSE [year |-> y, month |-> q + 3, day |-> 1]
       /\ op = "previous_quarter" =>
            result.val = IF m <= 3 THEN [year |-> y - 1, month |-> 10, day |-> 1]
                         ELSE [year |-> y, month |-> q - 3, day |-> 1]

C7_Witness ==
    /\ op = "previous_quarter"
    /\ result.tag = "Some"
    /\ date.month = 3
    /\ date.day = 31
    /\ result.val.year = date.year - 1

\* C8: beginning_of_year(d) = (y, 1, 1), end_of_year(d) = (y, 12, 31),
\* next_year(d) = (y + 1, 1, 1), previous_year(d) = (y - 1, 1, 1), also for
\* 29 February and for a day 31.
C8_Years ==
    /\ op = "beginning_of_year" =>
        result = Some([year |-> date.year, month |-> 1, day |-> 1])
    /\ op = "end_of_year" =>
        result = Some([year |-> date.year, month |-> 12, day |-> 31])
    /\ op = "next_year" =>
        result = Some([year |-> date.year + 1, month |-> 1, day |-> 1])
    /\ op = "previous_year" =>
        result = Some([year |-> date.year - 1, month |-> 1, day |-> 1])

C8_Witness ==
    /\ op = "previous_year"
    /\ result.tag = "Some"
    /\ date.month = 2
    /\ date.day = 29

\* C9: on a date of the years 1584..9999 each of the sixteen functions
\* returns a present, valid calendar date: never None, never a panic.
C9_AlwaysPresent ==
    (op # "none" /\ date.year \in SupportedYears) =>
        /\ result.tag = "Some"
        /\ from_ymd_opt(result.val.year, result.val.month, result.val.day) = result

C9_Witness ==
    /\ op = "end_of_year"
    /\ result.tag = "Some"
    /\ date.year \in SupportedYears
    /\ date.month = 2
    /\ date.day = 29

\* C10: for each period X, previous_X(next_X(d)) = beginning_of_X(d) and
\* next_X(previous_X(d)) = beginning_of_X(d).
C10_NextPreviousInverse ==
    /\ op = "next_week" =>
        result.tag = "Some" /\ previous_week(result.val) = beginning_of_week(date)
    /\ op = "previous_week" =>
        result.tag = "Some" /\ next_week(result.val) = beginning_of_week(date)
    /\ op = "next_month" =>
        result.tag = "Some" /\ previous_month(result.val) = beginning_of_month(date)
    /\ op = "previous_month" =>
        result.tag = "Some" /\ next_month(result.val) = beginning_of_month(date)
    /\ op = "next_quarter" =>
        result.tag = "Some" /\ previous_quarter(result.val) = beginning_of_quarter(date)
    /\ op = "previous_quarter" =>
        result.tag = "Some" /\ next_quarter(result.val) = beginning_of_quarter(date)
    /\ op = "next_year" =>
        result.tag = "Some" /\ previous_year(result.val) = beginning_of_year(date)
    /\ op = "previous_year" =>
        result.tag = "Some" /\ next_year(result.val) = beginning_of_year(date)

C10_Witness ==
    /\ op = "next_month"
    /\ result.tag = "Some"
    /\ date.month = 12
    /\ date.day = 31
    /\ previous_month(result.val) = Some([date EXCEPT !.day = 1])

====
